---- MODULE Spec2Model ----
(***************************************************************************)
(* Model of packages/menu/src/menu.tsx (chakra-ui menu components).        *)
(*                                                                         *)
(* A props object is a function from the names of the props that are       *)
(* present to their values: an absent prop is a name outside the DOMAIN.   *)
(* A className is a sequence of class tokens (the empty string is <<>>).   *)
(* A rendered element is a record [tag, attrs, children].                  *)
(***************************************************************************)
EXTENDS Integers, Sequences, FiniteSets, TLC

VARIABLES
    \* ---- rendering of one component (RenderSpec) ----
    comp,        \* the component being rendered
    props,       \* the props its caller supplies
    hookOpen,    \* the isOpen state held by useMenu at that render
    out,         \* what the render produced: [dom, hook]
    pc,          \* "init" before the render, "done" after it
    \* ---- a mounted Menu with a MenuList (Spec, FairSpec) ----
    mounted,     \* the Menu and its MenuList are mounted
    listProps0,  \* the props the caller gives to MenuList
    isOpen,      \* useMenu's open state
    motionProps, \* props of the Motion element in the last render
    childArg,    \* argument handed to Menu's render-prop child in the last render
    visibility,  \* current visibility of the list element
    level,       \* current opacity/scale of the list, 0..Levels
    playing,     \* an animation towards motionProps.animate is running
    played,      \* an animation was started since mount
    updates,     \* animation updates since the running animation started
    ctxCalls,    \* calls of the context's onTransitionEnd since then
    callerCalls  \* calls of the caller's own onUpdate since then

renderVars == <<comp, props, hookOpen, out, pc>>
menuVars == <<mounted, listProps0, isOpen, motionProps, childArg, visibility,
              level, playing, played, updates, ctxCalls, callerCalls>>
vars == <<renderVars, menuVars>>

\* Number of animation frames between fully hidden and fully shown.
Levels == 3

-----------------------------------------------------------------------------
(* Objects, class names, elements *)

NoProps == <<>>

Has(p, k) == k \in DOMAIN p

\* const { a, b, ...rest } = p
Omit(p, ks) == [k \in DOMAIN p \ ks |-> p[k]]

\* { ...a, ...b }: the later spread wins
Spread(a, b) == b @@ a

\* A string prop is truthy when present and not the empty string.
TruthyStr(p, k) == Has(p, k) /\ p[k] # ""

\* A boolean prop is truthy when present and true.
TruthyBool(p, k) == Has(p, k) /\ p[k]

ClassOf(p) == IF Has(p, "className") THEN p["className"] ELSE <<>>

ChildrenOf(p) == IF Has(p, "children") THEN p["children"] ELSE <<>>

\* cx(...classNames): drops the falsy names and joins the rest with a space
cx(a, b) == a \o b

Node(tag, attrs, children) == [tag |-> tag, attrs |-> attrs, children |-> children]

Text(s) == Node("#text", "value" :> s, <<>>)

\* chakra.<tag>: renders <tag> (or the `as` element), passing the props on
Chakra(tag, p) ==
    Node(IF Has(p, "as") THEN p["as"] ELSE tag,
         Omit(p, {"as", "children"}),
         ChildrenOf(p))

\* a component supplied by the caller through `as`; it passes its props on
Custom(As, p) == Node(As, Omit(p, {"children"}), ChildrenOf(p))

-----------------------------------------------------------------------------
(* The use-menu hooks this file consumes *)

useMenu(ownProps, open) ==
    [isOpen |-> open, onClose |-> "onClose", onOpen |-> "onOpen",
     onToggle |-> "onToggle", forceUpdate |-> "forceUpdate",
     onTransitionEnd |-> "ctx.onTransitionEnd"]

omitThemingProps(p) == Omit(p, {"styleConfig", "size", "variant", "colorScheme"})

useMenuButton(rest) == Spread(rest, "aria-haspopup" :> "menu")

useMenuList(p) == Spread(p, "role" :> "menu" @@ "tabIndex" :> (-1))

useMenuPositioner == "style" :> "positioner"

useMenuItem(rest) == Spread(rest, "role" :> "menuitem")

useMenuOption(rest) ==
    Spread(Omit(rest, {"isChecked"}),
           "role" :> "menuitemradio" @@
           (IF Has(rest, "isChecked") THEN "aria-checked" :> rest["isChecked"] ELSE NoProps))

useMenuOptionGroup(rest) == rest

-----------------------------------------------------------------------------
(* Menu *)

MenuHookArg(p) == omitThemingProps(p)

MenuContext(p, open) == useMenu(MenuHookArg(p), open)

\* variant of MenuChildArg: hands the whole context to the child
MenuChildArg_m(ctx) == ctx

\* the object handed to a render-prop child
MenuChildArg(ctx) ==
    [isOpen |-> ctx.isOpen, onClose |-> ctx.onClose, forceUpdate |-> ctx.forceUpdate]

\* runIfFn(children, arg): a function child is called with arg, another child
\* is returned as it is.  A function child is modelled by the element it
\* returns, which records the argument of the call.
runIfFn(children, arg) ==
    IF children.isFn THEN <<Node("#result", arg, children.value)>>
    ELSE children.value

Menu(p, open) == runIfFn(p["children"], MenuChildArg(MenuContext(p, open)))

-----------------------------------------------------------------------------
(* MenuButton *)

StyledMenuButton(p) == Chakra("button", Spread(p, "__css" :> "styles.button"))

MenuButton(p) ==
    LET rest == Omit(p, {"children", "as"})
        buttonProps == useMenuButton(rest)
        span == Chakra("span", "pointerEvents" :> "none" @@ "flex" :> "1 1 auto" @@
                               "children" :> ChildrenOf(p))
        q == Spread(buttonProps,
                    "className" :> cx(<<"chakra-menu__menu-button">>, ClassOf(p)) @@
                    "children" :> <<span>>)
    IN IF Has(p, "as") THEN Custom(p["as"], q) ELSE StyledMenuButton(q)

-----------------------------------------------------------------------------
(* MenuList *)

\* variant of motionVariants: exit hides the element at once, not at transitionEnd
motionVariants_m ==
    [enter |-> [now |-> [visibility |-> "visible"], level |-> Levels,
                transitionEnd |-> NoProps],
     exit  |-> [now |-> [visibility |-> "hidden"], level |-> 0,
                transitionEnd |-> NoProps]]

motionVariants ==
    [enter |-> [now |-> [visibility |-> "visible"], level |-> Levels,
                transitionEnd |-> NoProps],
     exit  |-> [now |-> NoProps, level |-> 0,
                transitionEnd |-> [visibility |-> "hidden"]]]

\* variant of MenuListAnimate: the two targets exchanged
MenuListAnimate_m(open) == IF open THEN "exit" ELSE "enter"

MenuListAnimate(open) == IF open THEN "enter" ELSE "exit"

MenuListInitial == FALSE

\* variant of MotionProps: the hook's props spread after the element's own
MotionProps_m(p, ctx) ==
    LET listProps == useMenuList(p)
    IN Spread("onUpdate" :> ctx.onTransitionEnd @@
              "className" :> cx(<<"chakra-menu__menu-list">>, ClassOf(listProps)) @@
              "variants" :> "motionVariants" @@
              "initial" :> MenuListInitial @@
              "animate" :> MenuListAnimate(ctx.isOpen) @@
              "__css" :> "styles.list",
              listProps)

MotionProps(p, ctx) ==
    LET listProps == useMenuList(p)
    IN Spread(listProps,
              "onUpdate" :> ctx.onTransitionEnd @@
              "className" :> cx(<<"chakra-menu__menu-list">>, ClassOf(listProps)) @@
              "variants" :> "motionVariants" @@
              "initial" :> MenuListInitial @@
              "animate" :> MenuListAnimate(ctx.isOpen) @@
              "__css" :> "styles.list")

MenuList(p, ctx) ==
    Chakra("div", Spread(useMenuPositioner,
                         "__css" :> "styles.list.zIndex" @@
                         "children" :> <<Chakra("div", MotionProps(p, ctx))>>))

-----------------------------------------------------------------------------
(* MenuIcon, MenuCommand, MenuDivider *)

MenuIcon(p) ==
    LET rest == Omit(p, {"className", "children"})
        child == ChildrenOf(p)[1]
        clone == IF child.tag # "#text"
                 THEN <<Node(child.tag,
                             Spread(child.attrs,
                                    "focusable" :> "false" @@ "aria-hidden" :> TRUE @@
                                    "className" :> cx(<<"chakra-menu__icon">>,
                                                      ClassOf(child.attrs))),
                             child.children)>>
                 ELSE <<>>
    IN Chakra("span",
              Spread(Spread("className" :> cx(<<"chakra-menu__icon-wrapper">>, ClassOf(p)),
                            rest),
                     "__css" :> "flexShrink0" @@ "children" :> clone))

MenuCommand(p) ==
    Chakra("span", Spread(p, "__css" :> "styles.command" @@
                             "className" :> <<"chakra-menu__command">>))

MenuDivider(p) ==
    LET rest == Omit(p, {"className"})
    IN Chakra("hr",
              Spread(Spread("role" :> "separator" @@ "aria-orientation" :> "horizontal" @@
                            "className" :> cx(<<"chakra-menu__divider">>, ClassOf(p)),
                            rest),
                     "__css" :> "styles.divider"))

-----------------------------------------------------------------------------
(* StyledMenuItem, MenuItem, MenuItemOption *)

\* variant of btnType: type ?? "button", whatever `as` is
btnType_m(p) == IF Has(p, "type") THEN "type" :> p["type"] ELSE "type" :> "button"

\* the `type` attribute, as the props that carry it (none when undefined)
btnType(p) ==
    IF Has(p, "as")
    THEN (IF Has(p, "type") THEN "type" :> p["type"] ELSE NoProps)
    ELSE "type" :> "button"

StyledMenuItem(p) ==
    LET rest == Omit(p, {"type"})
    IN Chakra("button", Spread(Spread(btnType(p), rest), "__css" :> "styles.item"))

DefaultIconSpacing == "0.75rem"

IconSpacingOf(p) == IF Has(p, "iconSpacing") THEN p["iconSpacing"] ELSE DefaultIconSpacing

MenuItemHookArg(p) == Omit(p, {"icon", "iconSpacing", "command", "children"})

\* variant of shouldWrap: the command is not looked at
shouldWrap_m(p) == Has(p, "icon")

shouldWrap(p) == Has(p, "icon") \/ TruthyStr(p, "command")

MenuItem(p) ==
    LET menuItemProps == useMenuItem(MenuItemHookArg(p))
        children_ == IF shouldWrap(p)
                     THEN <<Chakra("span", "pointerEvents" :> "none" @@ "flex" :> "1" @@
                                           "children" :> ChildrenOf(p))>>
                     ELSE ChildrenOf(p)
        iconPart == IF Has(p, "icon")
                    THEN <<MenuIcon("fontSize" :> "0.8em" @@
                                    "marginEnd" :> IconSpacingOf(p) @@
                                    "children" :> <<p["icon"]>>)>>
                    ELSE <<>>
        commandPart == IF TruthyStr(p, "command")
                       THEN <<MenuCommand("children" :> <<Text(p["command"])>>)>>
                       ELSE <<>>
    IN StyledMenuItem(
         Spread(menuItemProps,
                "className" :> cx(<<"chakra-menu__menuitem">>, ClassOf(menuItemProps)) @@
                "children" :> (iconPart \o children_ \o commandPart)))

CheckIcon ==
    Node("svg", "viewBox" :> "0 0 14 14" @@ "width" :> "1em" @@ "height" :> "1em",
         <<Node("polygon", "fill" :> "currentColor", <<>>)>>)

MenuItemOptionHookArg(p) == Omit(p, {"icon", "iconSpacing"})

\* variant of OptionOpacity: any isChecked, even false, shows the indicator
OptionOpacity_m(p) == IF Has(p, "isChecked") THEN 1 ELSE 0

OptionOpacity(p) == IF TruthyBool(p, "isChecked") THEN 1 ELSE 0

OptionIndicator(p) == IF Has(p, "icon") THEN p["icon"] ELSE CheckIcon

MenuItemOption(p) ==
    LET rest == MenuItemOptionHookArg(p)
        optionProps == useMenuOption(rest)
    IN StyledMenuItem(
         Spread(optionProps,
                "className" :> cx(<<"chakra-menu__menuitem-option">>, ClassOf(rest)) @@
                "children" :>
                  << MenuIcon("fontSize" :> "0.8em" @@
                              "marginEnd" :> IconSpacingOf(p) @@
                              "opacity" :> OptionOpacity(p) @@
                              "children" :> <<OptionIndicator(p)>>),
                     Chakra("span", "flex" :> "1" @@
                                    "children" :> ChildrenOf(optionProps)) >>))

-----------------------------------------------------------------------------
(* MenuGroup, MenuOptionGroup *)

MenuGroup(p) ==
    LET rest == Omit(p, {"title", "children", "className"})
        className_ == cx(<<"chakra-menu__group__title">>, ClassOf(p))
        titlePart == IF TruthyStr(p, "title")
                     THEN <<Chakra("p", Spread(Spread("className" :> className_, rest),
                                               "__css" :> "styles.groupTitle" @@
                                               "children" :> <<Text(p["title"])>>))>>
                     ELSE <<>>
    IN Chakra("div", "className" :> <<"chakra-menu__group">> @@ "role" :> "group" @@
                     "children" :> (titlePart \o ChildrenOf(p)))

MenuOptionGroup(p) ==
    LET rest == Omit(p, {"className", "title"})
        ownProps == useMenuOptionGroup(rest)
        titleProp == IF Has(p, "title") THEN "title" :> p["title"] ELSE NoProps
    IN MenuGroup(Spread(titleProp @@
                        "className" :> cx(<<"chakra-menu__option-group">>, ClassOf(p)),
                        ownProps))

-----------------------------------------------------------------------------
(* Inputs: the props a caller may supply to each component *)

Opt(k, S) == {NoProps} \cup {k :> v : v \in S}

Combine(A, B) == {a @@ b : a \in A, b \in B}

\* an icon element supplied by the caller
IconElem == Node("svg", "className" :> <<"my-icon">>, <<>>)

Label == <<Text("Label")>>

CommonInputs == Combine(Opt("className", {<<"x">>}), Opt("data-testid", {"t"}))

KidsInputs == Opt("children", {Label})

Exposed == {"MenuButton", "MenuList", "MenuItem", "MenuItemOption", "MenuOptionGroup",
            "MenuGroup", "MenuDivider", "MenuCommand", "MenuIcon"}

Components == Exposed \cup {"Menu", "StyledMenuItem"}

Inputs(c) ==
    CASE c = "Menu" ->
           Combine({"children" :> ch : ch \in {[isFn |-> TRUE, value |-> <<>>],
                                               [isFn |-> TRUE, value |-> Label],
                                               [isFn |-> FALSE, value |-> Label],
                                               [isFn |-> FALSE, value |-> <<>>]}},
                   Combine(Opt("variant", {"outline"}),
                           Combine(Opt("size", {"sm"}), Opt("closeOnSelect", {FALSE}))))
      [] c = "MenuButton" ->
           Combine(CommonInputs, Combine(KidsInputs, Opt("as", {"a"})))
      [] c = "MenuList" ->
           Combine(CommonInputs, Combine(KidsInputs, Opt("onUpdate", {"caller.onUpdate"})))
      [] c = "StyledMenuItem" ->
           Combine(Opt("className", {<<"x">>}),
                   Combine(Opt("as", {"a"}), Opt("type", {"button", "submit", "reset"})))
      [] c = "MenuItem" ->
           Combine(CommonInputs,
             Combine(KidsInputs,
               Combine(Opt("icon", {IconElem}),
                 Combine(Opt("iconSpacing", {"2px"}), Opt("command", {"", "Ctrl+T"})))))
      [] c = "MenuItemOption" ->
           Combine(CommonInputs,
             Combine(KidsInputs,
               Combine(Opt("icon", {IconElem}),
                 Combine(Opt("iconSpacing", {"2px"}), Opt("isChecked", BOOLEAN)))))
      [] c \in {"MenuGroup", "MenuOptionGroup"} ->
           Combine(CommonInputs, Combine(KidsInputs, Opt("title", {"", "Order"})))
      [] c \in {"MenuDivider", "MenuCommand"} ->
           Combine(CommonInputs, KidsInputs)
      [] c = "MenuIcon" ->
           Combine(CommonInputs, {"children" :> <<IconElem>>})

NotRendered == [dom |-> <<>>, hook |-> NoProps]

-----------------------------------------------------------------------------
(* RenderSpec: one render of one component with props chosen by the caller *)

MenuIdle ==
    /\ mounted = FALSE
    /\ listProps0 = NoProps
    /\ isOpen = FALSE
    /\ motionProps = NoProps
    /\ childArg = NoProps
    /\ visibility = "hidden"
    /\ level = 0
    /\ playing = FALSE
    /\ played = FALSE
    /\ updates = 0
    /\ ctxCalls = 0
    /\ callerCalls = 0

RenderInit ==
    /\ comp \in Components
    /\ props \in Inputs(comp)
    /\ hookOpen \in (IF comp \in {"Menu", "MenuList"} THEN BOOLEAN ELSE {FALSE})
    /\ out = NotRendered
    /\ pc = "init"
    /\ MenuIdle

Render(c, dom, hook) ==
    /\ pc = "init"
    /\ comp = c
    /\ out' = [dom |-> dom, hook |-> hook]
    /\ pc' = "done"
    /\ UNCHANGED <<comp, props, hookOpen, menuVars>>

RenderMenu == Render("Menu", Menu(props, hookOpen), MenuHookArg(props))

RenderMenuButton ==
    Render("MenuButton", <<MenuButton(props)>>, Omit(props, {"children", "as"}))

RenderMenuList ==
    Render("MenuList", <<MenuList(props, useMenu(NoProps, hookOpen))>>, props)

RenderStyledMenuItem == Render("StyledMenuItem", <<StyledMenuItem(props)>>, NoProps)

RenderMenuItem == Render("MenuItem", <<MenuItem(props)>>, MenuItemHookArg(props))

RenderMenuItemOption ==
    Render("MenuItemOption", <<MenuItemOption(props)>>, MenuItemOptionHookArg(props))

RenderMenuOptionGroup ==
    Render("MenuOptionGroup", <<MenuOptionGroup(props)>>, Omit(props, {"className", "title"}))

RenderMenuGroup == Render("MenuGroup", <<MenuGroup(props)>>, NoProps)

RenderMenuDivider == Render("MenuDivider", <<MenuDivider(props)>>, NoProps)

RenderMenuCommand == Render("MenuCommand", <<MenuCommand(props)>>, NoProps)

RenderMenuIcon == Render("MenuIcon", <<MenuIcon(props)>>, NoProps)

RenderNext ==
    \/ RenderMenu
    \/ RenderMenuButton
    \/ RenderMenuList
    \/ RenderStyledMenuItem
    \/ RenderMenuItem
    \/ RenderMenuItemOption
    \/ RenderMenuOptionGroup
    \/ RenderMenuGroup
    \/ RenderMenuDivider
    \/ RenderMenuCommand
    \/ RenderMenuIcon

RenderSpec == RenderInit /\ [][RenderNext]_vars

-----------------------------------------------------------------------------
(* Spec: a mounted Menu (render-prop child) with a MenuList, opened and     *)
(* closed through the context, and the animation of the list element       *)

\* the Menu of this scenario: a render-prop child, no theming props
MenuProps0 == "children" :> [isFn |-> TRUE, value |-> <<>>]

ListInputs == Inputs("MenuList")

\* the value a key has once the variant v is fully applied
Settled(v, k, cur) ==
    IF Has(v.transitionEnd, k) THEN v.transitionEnd[k]
    ELSE IF Has(v.now, k) THEN v.now[k]
    ELSE cur

\* the value a key takes when an animation to the variant v starts
Started(v, k, cur) == IF Has(v.now, k) THEN v.now[k] ELSE cur

\* One render of Menu and MenuList with the hook state `open` and the list
\* props lp, followed by the reaction of the Motion element to its new props:
\* a changed `animate` starts an animation towards the new variant.
RenderAll(open, lp) ==
    LET ctx == MenuContext(MenuProps0, open)
        mp == MotionProps(lp, ctx)
        v == motionVariants[mp["animate"]]
        restart == mp["animate"] # motionProps["animate"]
    IN /\ motionProps' = mp
       /\ childArg' = Menu(MenuProps0, open)[1].attrs
       /\ IF restart
          THEN /\ visibility' = Started(v, "visibility", visibility)
               /\ playing' = TRUE
               /\ played' = TRUE
               /\ updates' = 0
               /\ ctxCalls' = 0
               /\ callerCalls' = 0
          ELSE UNCHANGED <<visibility, playing, played, updates, ctxCalls, callerCalls>>
       /\ UNCHANGED level

\* First render.  With initial={false} the element takes the values of the
\* `animate` variant at once; otherwise it starts from its default style
\* (fully shown) and animates to the variant.
Mount ==
    /\ ~mounted
    /\ mounted' = TRUE
    /\ LET ctx == MenuContext(MenuProps0, isOpen)
           mp == MotionProps(listProps0, ctx)
           v == motionVariants[mp["animate"]]
       IN /\ motionProps' = mp
          /\ childArg' = Menu(MenuProps0, isOpen)[1].attrs
          /\ IF mp["initial"] = FALSE
             THEN /\ visibility' = Settled(v, "visibility", "visible")
                  /\ level' = v.level
                  /\ playing' = FALSE
                  /\ played' = FALSE
             ELSE /\ visibility' = Started(v, "visibility", "visible")
                  /\ level' = Levels
                  /\ playing' = TRUE
                  /\ played' = TRUE
    /\ UNCHANGED <<listProps0, isOpen, updates, ctxCalls, callerCalls, renderVars>>

\* ctx.onOpen (through the button, the keyboard, ...)
Open ==
    /\ mounted
    /\ ~isOpen
    /\ isOpen' = TRUE
    /\ RenderAll(TRUE, listProps0)
    /\ UNCHANGED <<mounted, listProps0, renderVars>>

\* ctx.onClose, also handed to the render-prop child
Close ==
    /\ mounted
    /\ isOpen
    /\ isOpen' = FALSE
    /\ RenderAll(FALSE, listProps0)
    /\ UNCHANGED <<mounted, listProps0, renderVars>>

\* the parent renders again, possibly with other props for the list
Rerender ==
    /\ mounted
    /\ \E lp \in ListInputs :
         /\ listProps0' = lp
         /\ RenderAll(isOpen, lp)
    /\ UNCHANGED <<mounted, isOpen, renderVars>>

\* One frame of the running animation: the level moves one step towards the
\* variant's, the element's onUpdate handler is called with the new value,
\* and the frame that reaches the target ends the animation and applies the
\* variant's transitionEnd values.
Frame ==
    /\ mounted
    /\ playing
    /\ LET v == motionVariants[motionProps["animate"]]
           next == IF level < v.level THEN level + 1
                   ELSE IF level > v.level THEN level - 1
                   ELSE level
           handler == motionProps["onUpdate"]
       IN /\ level' = next
          /\ IF next # level
             THEN /\ updates' = updates + 1
                  /\ IF handler = "ctx.onTransitionEnd"
                     THEN ctxCalls' = ctxCalls + 1 /\ UNCHANGED callerCalls
                     ELSE callerCalls' = callerCalls + 1 /\ UNCHANGED ctxCalls
             ELSE UNCHANGED <<updates, ctxCalls, callerCalls>>
          /\ IF next = v.level
             THEN /\ playing' = FALSE
                  /\ visibility' = Settled(v, "visibility", visibility)
             ELSE UNCHANGED <<playing, visibility>>
    /\ UNCHANGED <<mounted, listProps0, isOpen, motionProps, childArg, played, renderVars>>

Init ==
    /\ comp = "Menu"
    /\ props = MenuProps0
    /\ hookOpen = FALSE
    /\ out = NotRendered
    /\ pc = "init"
    /\ mounted = FALSE
    /\ listProps0 \in ListInputs
    /\ isOpen \in BOOLEAN
    /\ motionProps = NoProps
    /\ childArg = NoProps
    /\ visibility = "hidden"
    /\ level = 0
    /\ playing = FALSE
    /\ played = FALSE
    /\ updates = 0
    /\ ctxCalls = 0
    /\ callerCalls = 0

Next ==
    \/ Mount
    \/ Open
    \/ Close
    \/ Rerender
    \/ Frame

Spec == Init /\ [][Next]_vars

\* the animation engine keeps producing frames while an animation runs
FairSpec == Spec /\ WF_vars(Frame)

-----------------------------------------------------------------------------
(* Properties *)

RECURSIVE NodesOf(_)
\* every element of a rendered forest
NodesOf(s) ==
    IF Len(s) = 0 THEN {}
    ELSE UNION {{s[i]} \cup NodesOf(s[i].children) : i \in 1..Len(s)}

Range(s) == {s[i] : i \in 1..Len(s)}

HasClass(n, c) == c \in Range(ClassOf(n.attrs))

StandardAttrs == {"className", "data-testid"}

\* the attribute k of the caller's props is on some element of the output
Forwarded(k) ==
    \E n \in NodesOf(out.dom) :
        /\ Has(n.attrs, k)
        /\ IF k = "className"
           THEN Range(props[k]) \subseteq Range(n.attrs[k])
           ELSE n.attrs[k] = props[k]

\* C1: every exposed element forwards each standard attribute its caller
\* supplies, className included, to an element it renders.
C1_AttributesForwarded ==
    (pc = "done" /\ comp \in Exposed) =>
        \A k \in StandardAttrs \cap DOMAIN props : Forwarded(k)

ThemingKeys == {"styleConfig", "size", "variant", "colorScheme"}

\* C2: Menu outputs only its children: a function child is called with
\* exactly {isOpen, onClose, forceUpdate} of the context of this render, any
\* other child is rendered unchanged; useMenu gets the props without the
\* theming props.
C2_MenuRendersChildren ==
    (pc = "done" /\ comp = "Menu") =>
        /\ DOMAIN out.hook = DOMAIN props \ ThemingKeys
        /\ \A k \in DOMAIN out.hook : out.hook[k] = props[k]
        /\ IF props["children"].isFn
           THEN /\ Len(out.dom) = 1
                /\ out.dom[1].tag = "#result"
                /\ DOMAIN out.dom[1].attrs = {"isOpen", "onClose", "forceUpdate"}
                /\ out.dom[1].attrs["isOpen"] = hookOpen
                /\ out.dom[1].attrs["onClose"] = useMenu(out.hook, hookOpen).onClose
                /\ out.dom[1].attrs["forceUpdate"] = useMenu(out.hook, hookOpen).forceUpdate
                /\ out.dom[1].children = props["children"].value
           ELSE out.dom = props["children"].value

C2_Witness ==
    /\ pc = "done" /\ comp = "Menu"
    /\ props["children"].isFn
    /\ hookOpen
    /\ Has(props, "variant")
    /\ out.dom[1].attrs["isOpen"]

\* C3: with `as`, the button type is the caller's type when present and no
\* type attribute otherwise; without `as` the type is "button".
C3_ButtonType ==
    (pc = "done" /\ comp = "StyledMenuItem") =>
        LET a == out.dom[1].attrs
        IN IF Has(props, "as")
           THEN IF Has(props, "type")
                THEN Has(a, "type") /\ a["type"] = props["type"]
                ELSE ~Has(a, "type")
           ELSE Has(a, "type") /\ a["type"] = "button"

C3_Witness ==
    /\ pc = "done" /\ comp = "StyledMenuItem"
    /\ Has(props, "as") /\ ~Has(props, "type")
    /\ out.dom[1].tag = "a"
    /\ ~Has(out.dom[1].attrs, "type")

\* The children of the rendered menu item, split into icon, label and command.
ItemKids == out.dom[1].children

ItemHasIconNode == Len(ItemKids) >= 1 /\ HasClass(ItemKids[1], "chakra-menu__icon-wrapper")

ItemHasCommandNode ==
    Len(ItemKids) >= 1 /\ HasClass(ItemKids[Len(ItemKids)], "chakra-menu__command")

ItemLabelPart ==
    SubSeq(ItemKids,
           (IF ItemHasIconNode THEN 2 ELSE 1),
           Len(ItemKids) - (IF ItemHasCommandNode THEN 1 ELSE 0))

ItemLabelWrapped ==
    /\ Len(ItemLabelPart) = 1
    /\ ItemLabelPart[1].tag = "span"
    /\ Has(ItemLabelPart[1].attrs, "pointerEvents")
    /\ ItemLabelPart[1].attrs["pointerEvents"] = "none"
    /\ Has(ItemLabelPart[1].attrs, "flex")
    /\ ItemLabelPart[1].attrs["flex"] = "1"
    /\ ItemLabelPart[1].children = ChildrenOf(props)

ItemLabelBare == ItemLabelPart = ChildrenOf(props)

\* what the claim says of MenuItem, `commandGiven` telling when a command
\* counts as given
MenuItemShape(commandGiven) ==
    /\ ItemHasIconNode <=> Has(props, "icon")
    /\ ItemHasIconNode =>
          /\ ItemKids[1].attrs["marginEnd"] =
                (IF Has(props, "iconSpacing") THEN props["iconSpacing"] ELSE "0.75rem")
          /\ Len(ItemKids[1].children) = 1
          /\ ItemKids[1].children[1].tag = props["icon"].tag
    /\ ItemHasCommandNode => commandGiven
    /\ ItemHasCommandNode =>
          ItemKids[Len(ItemKids)].children = <<Text(props["command"])>>
    /\ \A i \in 1..Len(ItemKids) :
          /\ HasClass(ItemKids[i], "chakra-menu__icon-wrapper") => i = 1
          /\ HasClass(ItemKids[i], "chakra-menu__command") => i = Len(ItemKids)
    /\ IF Has(props, "icon") \/ commandGiven THEN ItemLabelWrapped ELSE ItemLabelBare
    /\ DOMAIN out.hook \cap {"icon", "iconSpacing", "command"} = {}
    /\ DOMAIN out.dom[1].attrs \cap {"icon", "iconSpacing", "command"} = {}

\* C4 (as stated): MenuItem renders icon, label, command in this order, the
\* label wrapped in a non-interactive span exactly when an icon or a command
\* is given; icon, iconSpacing and command reach neither the hook nor the
\* button.
C4_Original ==
    (pc = "done" /\ comp = "MenuItem") => MenuItemShape(Has(props, "command"))

\* C4 (amended): as above, a command counting as given when it is a
\* non-empty string; a non-empty command is rendered inside MenuCommand.
C4_MenuItemShape ==
    (pc = "done" /\ comp = "MenuItem") =>
        /\ MenuItemShape(TruthyStr(props, "command"))
        /\ TruthyStr(props, "command") => ItemHasCommandNode

C4_Witness ==
    /\ pc = "done" /\ comp = "MenuItem"
    /\ ~Has(props, "icon")
    /\ Has(props, "command") /\ props["command"] # ""
    /\ Has(props, "children")
    /\ Len(ItemKids) = 2
    /\ ItemLabelWrapped

\* C8: MenuItemOption always renders the indicator and the label span; the
\* indicator is the caller's icon or the built-in check mark, its opacity 1
\* exactly when the isChecked prop is truthy and 0 otherwise.
C8_OptionIndicator ==
    (pc = "done" /\ comp = "MenuItemOption") =>
        /\ Len(ItemKids) = 2
        /\ HasClass(ItemKids[1], "chakra-menu__icon-wrapper")
        /\ Len(ItemKids[1].children) = 1
        /\ ItemKids[1].children[1].tag = "svg"
        /\ IF Has(props, "icon")
           THEN Range(ClassOf(props["icon"].attrs)) \subseteq
                    Range(ClassOf(ItemKids[1].children[1].attrs))
           ELSE /\ Len(ItemKids[1].children[1].children) = 1
                /\ ItemKids[1].children[1].children[1].tag = "polygon"
        /\ ItemKids[1].attrs["opacity"] =
              (IF Has(props, "isChecked") /\ props["isChecked"] = TRUE THEN 1 ELSE 0)
        /\ ItemKids[2].tag = "span"
        /\ ItemKids[2].attrs["flex"] = "1"

C8_Witness ==
    /\ pc = "done" /\ comp = "MenuItemOption"
    /\ Has(props, "isChecked") /\ ~props["isChecked"]
    /\ ~Has(props, "icon")
    /\ ItemKids[1].attrs["opacity"] = 0
    /\ Len(ItemKids[1].children) = 1

\* C5: after any opens and closes the list's animation target is "enter"
\* exactly when the context is open, and agrees with the isOpen handed to the
\* render-prop child in the same render; the first mount plays no animation.
C5_AnimateFollowsIsOpen ==
    /\ [](mounted =>
            /\ motionProps["animate"] = (IF isOpen THEN "enter" ELSE "exit")
            /\ (motionProps["animate"] = "enter") <=> childArg["isOpen"]
            /\ motionProps["initial"] = FALSE)
    /\ [][(~mounted /\ mounted') => (~playing' /\ ~played' /\ updates' = 0)]_vars

C5_Witness ==
    /\ mounted /\ ~isOpen /\ played /\ playing
    /\ level > 0 /\ level < Levels
    /\ motionProps["animate"] = "exit"
    /\ childArg["isOpen"] = FALSE

\* C6: the list is never hidden while the menu is open; it becomes hidden
\* only by the frame that completes an exit transition, so a menu reopened
\* before the exit completes stays visible, and a menu left closed is
\* eventually hidden.
C6_VisibleWhileOpen ==
    /\ []((mounted /\ isOpen) => visibility = "visible")
    /\ [][(mounted /\ visibility = "visible" /\ visibility' = "hidden") =>
            (~isOpen /\ ~isOpen' /\ playing /\ ~playing'
             /\ motionProps["animate"] = "exit" /\ level' = 0)]_vars
    /\ []((mounted /\ ~isOpen) => <>(isOpen \/ visibility = "hidden"))

\* reopened while the exit transition was still running
C6_Witness ==
    /\ mounted /\ isOpen /\ playing /\ updates = 0
    /\ level > 0 /\ level < Levels
    /\ visibility = "visible"

\* C7: the context's onTransitionEnd is the list's only onUpdate handler,
\* whatever onUpdate came through the props of useMenuList, and it runs on
\* every animation update, possibly several times in one transition.
C7_OnUpdateIsTransitionEnd ==
    mounted =>
        /\ motionProps["onUpdate"] = useMenu(NoProps, isOpen).onTransitionEnd
        /\ ctxCalls = updates
        /\ callerCalls = 0

C7_Witness ==
    /\ mounted /\ playing
    /\ Has(listProps0, "onUpdate")
    /\ ctxCalls >= 2

====
